---- MODULE Spec2Model ----
(***************************************************************************)
(* Steem URI signing protocol (src/src/index.ts): Base64u transcoding,     *)
(* steem://sign/... URI encoding and decoding, placeholder resolution and  *)
(* callback templating.                                                    *)
(*                                                                         *)
(* A JavaScript string is a sequence of UTF-16 code units (naturals).  A   *)
(* JSON value is a tagged tuple: <<"null">>, <<"bool", b>>, <<"num", n>>,  *)
(* <<"str", s>>, <<"arr", <<v1, ...>>>>, <<"obj", <<<<k1, v1>>, ...>>>>.   *)
(* A call that throws yields [ok |-> FALSE, err |-> <error>].  The module  *)
(* runs in a browser, with the platform's btoa and atob, or in node.js,    *)
(* with the two Buffer polyfills.                                          *)
(***************************************************************************)
EXTENDS Integers, Sequences, FiniteSets, TLC

(***************************************************************************)
(* Text                                                                    *)
(***************************************************************************)

\* Code units 32..95 and 97..126, in order.
AsciiLo == " !\"#$%&'()*+,-./0123456789:;<=>?@ABCDEFGHIJKLMNOPQRSTUVWXYZ[\\]^_"
AsciiHi == "abcdefghijklmnopqrstuvwxyz{|}~"

Ord(c) ==
    IF \E i \in 1..Len(AsciiLo) : SubSeq(AsciiLo, i, i) = c
    THEN 31 + (CHOOSE i \in 1..Len(AsciiLo) : SubSeq(AsciiLo, i, i) = c)
    ELSE 96 + (CHOOSE i \in 1..Len(AsciiHi) : SubSeq(AsciiHi, i, i) = c)

\* The element of a one-element set.  Only({e : x \in {v}}) is e with x bound
\* to v, v computed once.
Only(S) == CHOOSE y \in S : TRUE

\* The code units of a literal.
Str(s) == [i \in 1..Len(s) |-> Ord(SubSeq(s, i, i))]

Tail2(s, i) == SubSeq(s, i, Len(s))

StartsWithAt(s, i, t) ==
    /\ i + Len(t) - 1 <= Len(s)
    /\ SubSeq(s, i, i + Len(t) - 1) = t

\* The concatenation of a sequence of sequences (by halves).
RECURSIVE Concat(_)
Concat(ss) ==
    IF Len(ss) = 0 THEN <<>>
    ELSE IF Len(ss) = 1 THEN ss[1]
    ELSE LET h == Len(ss) \div 2
         IN  Concat(SubSeq(ss, 1, h)) \o Concat(SubSeq(ss, h + 1, Len(ss)))

\* First index >= i of s holding a code unit of cs, or Len(s) + 1.
FindAny(s, i, cs) ==
    IF \E j \in i..Len(s) : s[j] \in cs
    THEN CHOOSE j \in i..Len(s) : s[j] \in cs /\ \A k \in i..(j - 1) : s[k] \notin cs
    ELSE Len(s) + 1

\* String.prototype.split on a single code unit.
RECURSIVE Split(_, _)
Split(s, c) ==
    LET k == FindAny(s, 1, {c})
    IN  IF k > Len(s) THEN <<s>>
        ELSE <<SubSeq(s, 1, k - 1)>> \o Split(Tail2(s, k + 1), c)

RECURSIVE Digits(_)
Digits(n) ==
    IF n < 10 THEN <<48 + n>> ELSE Digits(n \div 10) \o <<48 + (n % 10)>>

\* String(n) of an integer n.
NumToString(n) == IF n < 0 THEN <<45>> \o Digits(0 - n) ELSE Digits(n)

HexDigits == Str("0123456789ABCDEF")

HexValue(c) ==
    IF c \in 48..57 THEN c - 48
    ELSE IF c \in 65..70 THEN c - 55
    ELSE IF c \in 97..102 THEN c - 87
    ELSE -1

Ok(v) == [ok |-> TRUE, v |-> v, err |-> ""]
Throw(e) == [ok |-> FALSE, v |-> <<>>, err |-> e]

(***************************************************************************)
(* Base64 (btoa / atob) and Base64u                                        *)
(***************************************************************************)

\* Where the module runs: "browser" has btoa and atob, "node" has neither and
\* gets the two Buffer polyfills ("Assumes node.js if any of the utils needed
\* are missing").  URL and URLSearchParams are the same on both.
VARIABLE platform

Platforms == {"browser", "node"}

B64Alphabet ==
    Str("ABCDEFGHIJKLMNOPQRSTUVWXYZabcdefghijklmnopqrstuvwxyz0123456789+/")

B64Index(c) == (CHOOSE i \in 1..64 : B64Alphabet[i] = c) - 1

IsB64Char(c) == \E i \in 1..64 : B64Alphabet[i] = c

\* Buffer.toString('base64'): every three bytes become four sextets, the
\* last group padded with '='.
ToBase64(bytes) ==
    LET n == Len(bytes)
        byte(i) == IF i <= n THEN bytes[i] ELSE 0
        word(g) == byte(3 * g + 1) * 65536 + byte(3 * g + 2) * 256 + byte(3 * g + 3)
        sextet(g, k) ==
            CASE k = 0 -> word(g) \div 262144
              [] k = 1 -> (word(g) \div 4096) % 64
              [] k = 2 -> (word(g) \div 64) % 64
              [] OTHER -> word(g) % 64
        char(j) ==
            LET g == (j - 1) \div 4
                k == (j - 1) % 4
            IN  IF 3 * g + k > n THEN 61
                ELSE B64Alphabet[sextet(g, k) + 1]
    IN  [j \in 1..(4 * ((n + 2) \div 3)) |-> char(j)]

\* The bytes of a text of Base64 characters: the bits left over after the
\* last whole byte are discarded.
FromBase64(s) ==
    LET n == Len(s)
        six(i) == IF i <= n THEN B64Index(s[i]) ELSE 0
        word(g) == six(4 * g + 1) * 262144 + six(4 * g + 2) * 4096
                   + six(4 * g + 3) * 64 + six(4 * g + 4)
        byte(j) ==
            CASE (j - 1) % 3 = 0 -> word((j - 1) \div 3) \div 65536
              [] (j - 1) % 3 = 1 -> (word((j - 1) \div 3) \div 256) % 256
              [] OTHER -> word((j - 1) \div 3) % 256
        nbytes == 3 * (n \div 4) + (IF n % 4 = 0 THEN 0 ELSE (n % 4) - 1)
    IN  [j \in 1..nbytes |-> byte(j)]

\* btoa of the browser: a code unit above 0xFF throws InvalidCharacterError.
\* btoa of node.js, new Buffer(str, 'binary'): the low byte of every code unit.
btoa(str) ==
    IF platform = "node" THEN Ok(ToBase64([i \in 1..Len(str) |-> str[i] % 256]))
    ELSE IF \E i \in 1..Len(str) : str[i] > 255 THEN Throw("InvalidCharacterError")
    ELSE Ok(ToBase64(str))

AsciiWhitespace == {9, 10, 12, 13, 32}

\* atob of the browser, the forgiving-base64 decode: whitespace is dropped,
\* one or two trailing '=' are dropped when the length is a multiple of four,
\* and a length of 1 modulo 4 or a code unit outside the alphabet throws.
\* atob of node.js, new Buffer(str, 'base64'): code units outside the
\* alphabet, the padding among them, are skipped and nothing throws.
atob(str) ==
    LET Strip(s1) ==
            IF Len(s1) > 0 /\ Len(s1) % 4 = 0 /\ s1[Len(s1)] = 61
            THEN IF s1[Len(s1) - 1] = 61 THEN SubSeq(s1, 1, Len(s1) - 2)
                 ELSE SubSeq(s1, 1, Len(s1) - 1)
            ELSE s1
        Bytes(s2) ==
            IF Len(s2) % 4 = 1 \/ \E i \in 1..Len(s2) : ~IsB64Char(s2[i])
            THEN Throw("InvalidCharacterError")
            ELSE Ok(FromBase64(s2))
    IN  IF platform = "node" THEN Ok(FromBase64(SelectSeq(str, IsB64Char)))
        ELSE Only({ Bytes(Strip(s1))
                  : s1 \in {SelectSeq(str, LAMBDA c : c \notin AsciiWhitespace)} })

\* B64U_LOOKUP: '/' <-> '_', '+' <-> '-', '=' <-> '.'
B64U_LOOKUP(c) ==
    CASE c = 47 -> 95
      [] c = 95 -> 47
      [] c = 43 -> 45
      [] c = 45 -> 43
      [] c = 61 -> 46
      [] c = 46 -> 61
      [] OTHER -> c

\* A b64uEnc that leaves the standard alphabet in place.
b64uEncStandard(str) == btoa(str)

b64uEnc(str) ==
    Only({ IF ~r.ok THEN r
           ELSE Ok([i \in 1..Len(r.v) |->
                       IF r.v[i] \in {43, 47, 61} THEN B64U_LOOKUP(r.v[i]) ELSE r.v[i]])
         : r \in {btoa(str)} })

b64uDec(str) ==
    atob([i \in 1..Len(str) |->
             IF str[i] \in {45, 95, 46} THEN B64U_LOOKUP(str[i]) ELSE str[i]])

(***************************************************************************)
(* JSON.stringify(data, null, 0) and JSON.parse                            *)
(***************************************************************************)

JNull == <<"null">>
JBool(b) == <<"bool", b>>
JNum(n) == <<"num", n>>
JStr(s) == <<"str", s>>
JArr(vs) == <<"arr", vs>>
JObj(kvs) == <<"obj", kvs>>

LowerHex == Str("0123456789abcdef")
S_true == Str("true")
S_false == Str("false")
S_null == Str("null")

\* QuoteJSONString on one code unit.
QuoteChar(c) ==
    CASE c = 34 -> <<92, 34>>
      [] c = 92 -> <<92, 92>>
      [] c = 8 -> <<92, 98>>
      [] c = 9 -> <<92, 116>>
      [] c = 10 -> <<92, 110>>
      [] c = 12 -> <<92, 102>>
      [] c = 13 -> <<92, 114>>
      [] c < 32 /\ c \notin {8, 9, 10, 12, 13} ->
            <<92, 117, 48, 48, LowerHex[(c \div 16) + 1], LowerHex[(c % 16) + 1]>>
      [] OTHER -> <<c>>

QuoteString(s) ==
    <<34>> \o Concat([i \in 1..Len(s) |-> QuoteChar(s[i])]) \o <<34>>

RECURSIVE Join(_, _)
Join(ss, sep) ==
    IF ss = <<>> THEN <<>>
    ELSE IF Len(ss) = 1 THEN ss[1]
    ELSE ss[1] \o sep \o Join(Tail(ss), sep)

\* JSON.stringify without indentation.
RECURSIVE stringify(_)
stringify(v) ==
    CASE v[1] = "null" -> S_null
      [] v[1] = "bool" -> IF v[2] THEN S_true ELSE S_false
      [] v[1] = "num" -> NumToString(v[2])
      [] v[1] = "str" -> QuoteString(v[2])
      [] v[1] = "arr" ->
            <<91>> \o Join([i \in 1..Len(v[2]) |-> stringify(v[2][i])], <<44>>) \o <<93>>
      [] OTHER ->
            <<123>>
            \o Join([i \in 1..Len(v[2]) |->
                        QuoteString(v[2][i][1]) \o <<58>> \o stringify(v[2][i][2])], <<44>>)
            \o <<125>>

\* A parser step: the value read and the index after it, or a SyntaxError.
Parsed(v, i) == [ok |-> TRUE, v |-> v, i |-> i]
SyntaxError == [ok |-> FALSE, v |-> <<>>, i |-> 0]

JsonWhitespace == {9, 10, 13, 32}

RECURSIVE SkipWs(_, _)
SkipWs(s, i) ==
    IF i <= Len(s) /\ s[i] \in JsonWhitespace THEN SkipWs(s, i + 1) ELSE i

At(s, i) == IF i <= Len(s) THEN s[i] ELSE -1

\* The body of a string literal from index i (after the opening quote).
RECURSIVE ParseString(_, _, _)
ParseString(s, i, acc) ==
    LET c == At(s, i)
        e == At(s, i + 1)
        h(k) == HexValue(At(s, i + 1 + k))
    IN  IF c < 32 THEN SyntaxError
        ELSE IF c = 34 THEN Parsed(acc, i + 1)
        ELSE IF c # 92 THEN ParseString(s, i + 1, Append(acc, c))
        ELSE IF e \in {34, 92, 47} THEN ParseString(s, i + 2, Append(acc, e))
        ELSE IF e = 98 THEN ParseString(s, i + 2, Append(acc, 8))
        ELSE IF e = 102 THEN ParseString(s, i + 2, Append(acc, 12))
        ELSE IF e = 110 THEN ParseString(s, i + 2, Append(acc, 10))
        ELSE IF e = 114 THEN ParseString(s, i + 2, Append(acc, 13))
        ELSE IF e = 116 THEN ParseString(s, i + 2, Append(acc, 9))
        ELSE IF e = 117 /\ \A k \in 1..4 : h(k) >= 0
             THEN ParseString(s, i + 6,
                      Append(acc, h(1) * 4096 + h(2) * 256 + h(3) * 16 + h(4)))
        ELSE SyntaxError

RECURSIVE ParseDigits(_, _, _)
ParseDigits(s, i, acc) ==
    IF At(s, i) \in 48..57 THEN ParseDigits(s, i + 1, 10 * acc + (At(s, i) - 48))
    ELSE Parsed(acc, i)

\* An integer literal: -? (0 | [1-9][0-9]*).  Numbers of the model are
\* integers; a fraction or an exponent is not read.
ParseNumber(s, i) ==
    LET j == IF At(s, i) = 45 THEN i + 1 ELSE i
        d == IF At(s, j) = 48 THEN Parsed(0, j + 1) ELSE ParseDigits(s, j, 0)
    IN  IF At(s, j) \notin 48..57 \/ At(s, d.i) \in {46, 69, 101} THEN SyntaxError
        ELSE Parsed(JNum(IF j > i THEN 0 - d.v ELSE d.v), d.i)

\* CreateDataProperty: a repeated key keeps its place and takes the new value.
SetKey(kvs, k, v) ==
    IF \E n \in 1..Len(kvs) : kvs[n][1] = k
    THEN [n \in 1..Len(kvs) |-> IF kvs[n][1] = k THEN <<k, v>> ELSE kvs[n]]
    ELSE Append(kvs, <<k, v>>)

RECURSIVE ParseValue(_, _)
RECURSIVE ParseElements(_, _, _)
RECURSIVE ParseMembers(_, _, _)

ParseElements(s, i, acc) ==
    LET r == ParseValue(s, i)
        k == SkipWs(s, r.i)
    IN  IF ~r.ok THEN SyntaxError
        ELSE IF At(s, k) = 44 THEN ParseElements(s, k + 1, Append(acc, r.v))
        ELSE IF At(s, k) = 93 THEN Parsed(JArr(Append(acc, r.v)), k + 1)
        ELSE SyntaxError

ParseMembers(s, i, acc) ==
    LET j == SkipWs(s, i)
        key == IF At(s, j) = 34 THEN ParseString(s, j + 1, <<>>) ELSE SyntaxError
        c == IF key.ok THEN SkipWs(s, key.i) ELSE 0
        r == IF key.ok /\ At(s, c) = 58 THEN ParseValue(s, c + 1) ELSE SyntaxError
        k == IF r.ok THEN SkipWs(s, r.i) ELSE 0
    IN  IF ~r.ok THEN SyntaxError
        ELSE IF At(s, k) = 44 THEN ParseMembers(s, k + 1, SetKey(acc, key.v, r.v))
        ELSE IF At(s, k) = 125 THEN Parsed(JObj(SetKey(acc, key.v, r.v)), k + 1)
        ELSE SyntaxError

ParseValue(s, i) ==
    LET j == SkipWs(s, i)
        k == SkipWs(s, j + 1)
        str == ParseString(s, j + 1, <<>>)
    IN  CASE At(s, j) = 123 ->
               IF At(s, k) = 125 THEN Parsed(JObj(<<>>), k + 1)
               ELSE ParseMembers(s, j + 1, <<>>)
          [] At(s, j) = 91 ->
               IF At(s, k) = 93 THEN Parsed(JArr(<<>>), k + 1)
               ELSE ParseElements(s, j + 1, <<>>)
          [] At(s, j) = 34 ->
               IF str.ok THEN Parsed(JStr(str.v), str.i) ELSE SyntaxError
          [] At(s, j) = 45 \/ At(s, j) \in 48..57 -> ParseNumber(s, j)
          [] StartsWithAt(s, j, S_true) -> Parsed(JBool(TRUE), j + 4)
          [] StartsWithAt(s, j, S_false) -> Parsed(JBool(FALSE), j + 5)
          [] StartsWithAt(s, j, S_null) -> Parsed(JNull, j + 4)
          [] OTHER -> SyntaxError

\* JSON.parse: one value, then nothing but whitespace.
parse(text) ==
    LET r == ParseValue(text, 1)
    IN  IF r.ok /\ SkipWs(text, r.i) > Len(text) THEN Ok(r.v)
        ELSE Throw("SyntaxError")

(***************************************************************************)
(* URL and URLSearchParams                                                 *)
(***************************************************************************)

IsAlpha(c) == c \in 65..90 \/ c \in 97..122
IsDigit(c) == c \in 48..57
ToLower(c) == IF c \in 65..90 THEN c + 32 ELSE c

Utf8Encode(c) ==
    IF c < 128 THEN <<c>>
    ELSE IF c < 2048 THEN <<192 + (c \div 64), 128 + (c % 64)>>
    ELSE <<224 + (c \div 4096), 128 + ((c \div 64) % 64), 128 + (c % 64)>>

IsCont(b) == b \in 128..191

\* UTF-8 decode of one-, two- and three-byte sequences; any other byte
\* becomes U+FFFD.  A lead byte is no continuation byte, so whether a byte
\* belongs to a sequence is decided by the two bytes before it.
Utf8Decode(bs) ==
    LET n == Len(bs)
        cont(i) == i >= 1 /\ i <= n /\ IsCont(bs[i])
        lead2(i) == i >= 1 /\ bs[i] \in 194..223 /\ cont(i + 1)
        lead3(i) == i >= 1 /\ bs[i] \in 224..239 /\ cont(i + 1) /\ cont(i + 2)
        unit(i) ==
            IF bs[i] < 128 THEN <<bs[i]>>
            ELSE IF lead2(i) THEN <<(bs[i] - 192) * 64 + (bs[i + 1] - 128)>>
            ELSE IF lead3(i)
                 THEN <<(bs[i] - 224) * 4096 + (bs[i + 1] - 128) * 64 + (bs[i + 2] - 128)>>
            ELSE IF cont(i) /\ (lead2(i - 1) \/ lead3(i - 1) \/ lead3(i - 2)) THEN <<>>
            ELSE <<65533>>
    IN  Concat([i \in 1..n |-> unit(i)])

\* The application/x-www-form-urlencoded byte serializer.
UrlencodeByte(b) ==
    IF IsAlpha(b) \/ IsDigit(b) \/ b \in {42, 45, 46, 95} THEN <<b>>
    ELSE IF b = 32 THEN <<43>>
    ELSE <<37, HexDigits[(b \div 16) + 1], HexDigits[(b % 16) + 1]>>

Urlencode(str) ==
    Only({ Concat([i \in 1..Len(bytes) |-> UrlencodeByte(bytes[i])])
         : bytes \in {Concat([i \in 1..Len(str) |-> Utf8Encode(str[i])])} })

\* Percent-decode: "%" and two hex digits become one byte.  A hex digit is
\* no "%", so escapes never overlap.
PercentDecode(s) ==
    LET n == Len(s)
        escape(i) ==
            /\ i >= 1
            /\ i + 2 <= n
            /\ s[i] = 37
            /\ HexValue(s[i + 1]) >= 0
            /\ HexValue(s[i + 2]) >= 0
        byte(i) ==
            IF escape(i) THEN <<HexValue(s[i + 1]) * 16 + HexValue(s[i + 2])>>
            ELSE IF escape(i - 1) \/ escape(i - 2) THEN <<>>
            ELSE <<s[i]>>
    IN  Concat([i \in 1..n |-> byte(i)])

Urldecode(s) ==
    Utf8Decode(PercentDecode([i \in 1..Len(s) |-> IF s[i] = 43 THEN 32 ELSE s[i]]))

\* URLSearchParams.prototype.toString of a list of <<name, value>> pairs.
SearchParamsToString(pairs) ==
    Join([i \in 1..Len(pairs) |->
             Urlencode(pairs[i][1]) \o <<61>> \o Urlencode(pairs[i][2])], <<38>>)

\* The application/x-www-form-urlencoded parser: the list of <<name, value>>.
ParseSearchParams(query) ==
    LET pair(q) ==
            Only({ <<Urldecode(SubSeq(q, 1, k - 1)), Urldecode(Tail2(q, k + 1))>>
                 : k \in {FindAny(q, 1, {61})} })
    IN  Only({ [i \in 1..Len(parts) |-> pair(parts[i])]
             : parts \in {SelectSeq(Split(query, 38), LAMBDA q : q # <<>>)} })

SearchHas(pairs, name) == \E i \in 1..Len(pairs) : pairs[i][1] = name

SearchGet(pairs, name) ==
    pairs[CHOOSE i \in 1..Len(pairs) :
             /\ pairs[i][1] = name
             /\ \A j \in 1..(i - 1) : pairs[j][1] # name][2]

ForbiddenHostCodePoints == {0, 9, 10, 13, 32, 35, 47, 58, 60, 62, 63, 64, 91, 92, 93, 94, 124}

\* new URL(input) for an input without a base: scheme ":" then, after "//",
\* the host up to '/', '?' or '#', the path up to '?' or '#', the query up
\* to '#'.  A missing or malformed scheme, or a forbidden code point in the
\* host, throws TypeError.  The scheme is lowercased.
URL(input) ==
    LET SchemeOk(k) ==
            /\ k <= Len(input)
            /\ k > 1
            /\ IsAlpha(input[1])
            /\ \A i \in 1..(k - 1) :
                  IsAlpha(input[i]) \/ IsDigit(input[i]) \/ input[i] \in {43, 45, 46}
        Host(authority) ==
            Only({ IF at <= Len(authority) THEN Tail2(authority, at + 1) ELSE authority
                 : at \in {FindAny(authority, 1, {64})} })
        HostOk(host) ==
            Only({ /\ \A i \in 1..(colon - 1) : host[i] \notin ForbiddenHostCodePoints
                   /\ \A i \in (colon + 1)..Len(host) : IsDigit(host[i])
                 : colon \in {FindAny(host, 1, {58})} })
        Search(afterPath) ==
            IF afterPath # <<>> /\ afterPath[1] = 63
            THEN ParseSearchParams(SubSeq(afterPath, 2, FindAny(afterPath, 1, {35}) - 1))
            ELSE <<>>
        Parts(protocol, host, afterHost) ==
            Only({ IF ~HostOk(host) THEN Throw("TypeError")
                   ELSE Ok([protocol |-> protocol,
                            host |-> host,
                            pathname |-> SubSeq(afterHost, 1, pEnd - 1),
                            searchParams |-> Search(Tail2(afterHost, pEnd))])
                 : pEnd \in {FindAny(afterHost, 1, {63, 35})} })
        AfterScheme(protocol, rest) ==
            IF StartsWithAt(rest, 1, <<47, 47>>)
            THEN Only({ Only({ Parts(protocol, Host(SubSeq(afterAuth, 1, hEnd - 1)),
                                     Tail2(afterAuth, hEnd))
                             : hEnd \in {FindAny(afterAuth, 1, {47, 63, 35})} })
                      : afterAuth \in {Tail2(rest, 3)} })
            ELSE Parts(protocol, <<>>, rest)
    IN  Only({ IF ~SchemeOk(k) THEN Throw("TypeError")
               ELSE AfterScheme([i \in 1..k |-> ToLower(input[i])], Tail2(input, k + 1))
             : k \in {FindAny(input, 1, {58})} })

(***************************************************************************)
(* The protocol                                                            *)
(***************************************************************************)

\* An optional field: absent, or set to a value.
Undefined == <<>>
Some(v) == <<v>>
IsSet(o) == o # Undefined
Get(o) == o[1]

\* Parameters {signer?, callback?, no_broadcast?}
Params(signer, callback, no_broadcast) ==
    [signer |-> signer, callback |-> callback, no_broadcast |-> no_broadcast]

NoParams == Params(Undefined, Undefined, Undefined)

S_steem == Str("steem:")
S_sign == Str("sign")
S_tx == Str("tx")
S_op == Str("op")
S_ops == Str("ops")
S_cb == Str("cb")
S_nb == Str("nb")
S_s == Str("s")
S_ref_block_num == Str("ref_block_num")
S_ref_block_prefix == Str("ref_block_prefix")
S_expiration == Str("expiration")
S_extensions == Str("extensions")
S_operations == Str("operations")
T_ref_block_num == Str("__ref_block_num")
T_ref_block_prefix == Str("__ref_block_prefix")
T_expiration == Str("__expiration")
T_signer == Str("__signer")

\* The transaction decode builds around the operations of an op / ops link.
PlaceholderTx(operations) ==
    JObj(<< <<S_ref_block_num, JStr(T_ref_block_num)>>,
            <<S_ref_block_prefix, JStr(T_ref_block_prefix)>>,
            <<S_expiration, JStr(T_expiration)>>,
            <<S_extensions, JArr(<<>>)>>,
            <<S_operations, operations>> >>)

\* JSON.parse(b64uDec(rawPayload)) inside the try block: every throw, also
\* that of a missing path segment, is rethrown as "Invalid payload: ...".
DecodePayload(segs) ==
    Only({ Only({ IF val.ok THEN val ELSE Throw("InvalidPayload")
                : val \in {IF raw.ok THEN parse(raw.v) ELSE raw} })
         : raw \in {IF Len(segs) >= 2 THEN b64uDec(segs[2]) ELSE Throw("TypeError")} })

\* The query parameters cb, nb and s.
DecodeParams(sp) ==
    Only({ IF ~cb.ok THEN cb
           ELSE Ok(Params(
                    IF SearchHas(sp, S_s) THEN Some(SearchGet(sp, S_s)) ELSE Undefined,
                    IF SearchHas(sp, S_cb) THEN Some(cb.v) ELSE Undefined,
                    IF SearchHas(sp, S_nb) THEN Some(TRUE) ELSE Undefined))
         : cb \in {IF SearchHas(sp, S_cb) THEN b64uDec(SearchGet(sp, S_cb))
                   ELSE Ok(<<>>)} })

\* decode(steemUrl): the checks in the order of the code: the URL parses, the
\* protocol, the host, the payload, the signing action, the parameters.
decode(steemUrl) ==
    LET Transaction(type, payload) ==
            CASE type = S_tx -> payload
              [] type = S_op -> PlaceholderTx(JArr(<<payload>>))
              [] OTHER -> PlaceholderTx(payload)
        Switch(url, segs, payload) ==
            IF segs[1] \notin {S_tx, S_op, S_ops} THEN Throw("InvalidSigningAction")
            ELSE Only({ IF ~params.ok THEN params
                        ELSE Ok([tx |-> Transaction(segs[1], payload), params |-> params.v])
                      : params \in {DecodeParams(url.searchParams)} })
        Payload(url) ==
            Only({ Only({ IF ~payload.ok THEN payload ELSE Switch(url, segs, payload.v)
                        : payload \in {DecodePayload(segs)} })
                 : segs \in {Tail(Split(url.pathname, 47))} })
    IN  Only({ IF ~url.ok THEN Throw("MalformedUri")
               ELSE IF url.v.protocol # S_steem THEN Throw("InvalidProtocol")
               ELSE IF url.v.host # S_sign THEN Throw("InvalidAction")
               ELSE Payload(url.v)
             : url \in {URL(steemUrl)} })

\* if (x): a set, non-empty string.
Truthy(o) == IsSet(o) /\ Get(o) # <<>>

\* RESOLVE_PATTERN = /(__(ref_block_(num|prefix)|expiration|signer))/g
RESOLVE_PATTERN == <<T_ref_block_num, T_ref_block_prefix, T_expiration, T_signer>>

\* The context ctx of resolveTransaction, a token's value as the replace
\* callback's result is used: converted to a string.
CtxString(ctx, m) ==
    CASE m = T_ref_block_num -> NumToString(ctx.ref_block_num)
      [] m = T_ref_block_prefix -> NumToString(ctx.ref_block_prefix)
      [] m = T_expiration -> ctx.expiration
      [] OTHER -> ctx.signer

\* A replace that fills a placeholder only where it is the whole string.
ReplaceWhole(val, ctx) ==
    IF \E n \in 1..Len(RESOLVE_PATTERN) : val = RESOLVE_PATTERN[n]
    THEN CtxString(ctx, val)
    ELSE val

\* val.replace(RESOLVE_PATTERN, (m) => ctx[m]): every match, left to right,
\* wherever in the string it starts.
RECURSIVE ReplaceTokens(_, _)
ReplaceTokens(val, ctx) ==
    IF val = <<>> THEN <<>>
    ELSE IF \E n \in 1..Len(RESOLVE_PATTERN) : StartsWithAt(val, 1, RESOLVE_PATTERN[n])
         THEN LET m == RESOLVE_PATTERN[CHOOSE n \in 1..Len(RESOLVE_PATTERN) :
                                          StartsWithAt(val, 1, RESOLVE_PATTERN[n])]
              IN  CtxString(ctx, m) \o ReplaceTokens(Tail2(val, Len(m) + 1), ctx)
    ELSE <<val[1]>> \o ReplaceTokens(Tail(val), ctx)

\* walk(val) of resolveTransaction.
RECURSIVE walk(_, _)
walk(val, ctx) ==
    CASE val[1] = "str" -> JStr(ReplaceTokens(val[2], ctx))
      [] val[1] = "arr" -> JArr([i \in 1..Len(val[2]) |-> walk(val[2][i], ctx)])
      [] val[1] = "obj" ->
            JObj([i \in 1..Len(val[2]) |-> <<val[2][i][1], walk(val[2][i][2], ctx)>>])
      [] OTHER -> val

\* ResolveOptions
Options(ref_block_num, ref_block_prefix, expiration, signers, preferred_signer) ==
    [ref_block_num |-> ref_block_num, ref_block_prefix |-> ref_block_prefix,
     expiration |-> expiration, signers |-> signers,
     preferred_signer |-> preferred_signer]

\* A choice with the operands of || swapped.
ChoosePreferred(params, options) ==
    IF options.preferred_signer # <<>> THEN options.preferred_signer
    ELSE IF IsSet(params.signer) THEN Get(params.signer)
    ELSE <<>>

\* const signer = params.signer || options.preferred_signer
ChooseSigner(params, options) ==
    IF Truthy(params.signer) THEN Get(params.signer) ELSE options.preferred_signer

resolveTransaction(utx, params, options) ==
    Only({ IF \A i \in 1..Len(options.signers) : options.signers[i] # signer
           THEN Throw("SignerUnavailable")
           ELSE Ok([signer |-> signer,
                    tx |-> walk(utx, [ref_block_num |-> options.ref_block_num,
                                      ref_block_prefix |-> options.ref_block_prefix,
                                      expiration |-> options.expiration,
                                      signer |-> signer])])
         : signer \in {ChooseSigner(params, options)} })

\* TransactionConfirmation {sig, id?, block?, txn?}
Confirmation(sig, id, block, txn) ==
    [sig |-> Some(sig), id |-> id, block |-> block, txn |-> txn]

\* CALLBACK_RESOLVE_PATTERN = /({{(sig|id|block|txn)}})/g, by captured name.
CALLBACK_RESOLVE_PATTERN ==
    << <<Str("{{sig}}"), "sig">>, <<Str("{{id}}"), "id">>,
       <<Str("{{block}}"), "block">>, <<Str("{{txn}}"), "txn">> >>

\* ctx[m] || '': an absent field, an empty string and the number 0 are falsy.
CallbackValue(ctx, m) ==
    LET o == ctx[m]
    IN  IF ~IsSet(o) THEN <<>>
        ELSE IF m \in {"block", "txn"}
             THEN IF Get(o) = 0 THEN <<>> ELSE NumToString(Get(o))
        ELSE Get(o)

RECURSIVE resolveCallback(_, _)
resolveCallback(url, ctx) ==
    IF url = <<>> THEN <<>>
    ELSE IF \E n \in 1..4 : StartsWithAt(url, 1, CALLBACK_RESOLVE_PATTERN[n][1])
         THEN LET p == CALLBACK_RESOLVE_PATTERN[CHOOSE n \in 1..4 :
                           StartsWithAt(url, 1, CALLBACK_RESOLVE_PATTERN[n][1])]
              IN  CallbackValue(ctx, p[2]) \o resolveCallback(Tail2(url, Len(p[1]) + 1), ctx)
    ELSE <<url[1]>> \o resolveCallback(Tail(url), ctx)

\* An encodeParameters that sets s before nb.
encodeParametersSignerFirst(params) ==
    LET Query(cb) ==
            SearchParamsToString(
                (IF Truthy(params.signer) THEN << <<S_s, Get(params.signer)>> >> ELSE <<>>)
                \o (IF params.no_broadcast = Some(TRUE) THEN << <<S_nb, <<>> >> >> ELSE <<>>)
                \o (IF Truthy(params.callback) THEN << <<S_cb, cb>> >> ELSE <<>>))
    IN  Only({ IF ~cb.ok THEN cb
               ELSE Only({ Ok(IF Len(qs) > 0 THEN <<63>> \o qs ELSE qs)
                         : qs \in {Query(cb.v)} })
             : cb \in {IF Truthy(params.callback) THEN b64uEnc(Get(params.callback))
                       ELSE Ok(<<>>)} })

\* encodeParameters: nb, s and cb in this order, "?" only before a non-empty
\* query string.
encodeParameters(params) ==
    LET Query(cb) ==
            SearchParamsToString(
                (IF params.no_broadcast = Some(TRUE) THEN << <<S_nb, <<>> >> >> ELSE <<>>)
                \o (IF Truthy(params.signer) THEN << <<S_s, Get(params.signer)>> >> ELSE <<>>)
                \o (IF Truthy(params.callback) THEN << <<S_cb, cb>> >> ELSE <<>>))
    IN  Only({ IF ~cb.ok THEN cb
               ELSE Only({ Ok(IF Len(qs) > 0 THEN <<63>> \o qs ELSE qs)
                         : qs \in {Query(cb.v)} })
             : cb \in {IF Truthy(params.callback) THEN b64uEnc(Get(params.callback))
                       ELSE Ok(<<>>)} })

encodeJson(data) == b64uEnc(stringify(data))

Encode(prefix, data, params) ==
    Only({ IF ~payload.ok THEN payload
           ELSE Only({ IF ~qs.ok THEN qs ELSE Ok(prefix \o payload.v \o qs.v)
                     : qs \in {encodeParameters(params)} })
         : payload \in {encodeJson(data)} })

P_tx == Str("steem://sign/tx/")
P_op == Str("steem://sign/op/")
P_ops == Str("steem://sign/ops/")

encodeTx(tx, params) == Encode(P_tx, tx, params)
encodeOp(op, params) == Encode(P_op, op, params)
encodeOps(ops, params) == Encode(P_ops, ops, params)

(***************************************************************************)
(* Inputs of the model                                                     *)
(***************************************************************************)

Obj2(k1, v1, k2, v2) == JObj(<< <<Str(k1), v1>>, <<Str(k2), v2>> >>)
Obj3(k1, v1, k2, v2, k3, v3) ==
    JObj(<< <<Str(k1), v1>>, <<Str(k2), v2>>, <<Str(k3), v3>> >>)
Operation(name, fields) == JArr(<<JStr(Str(name)), fields>>)

\* README "Witness vote".
OpVote ==
    Operation("account_witness_vote",
        Obj3("account", JStr(T_signer), "witness", JStr(Str("jesta")),
             "approve", JBool(TRUE)))

\* README "Follow user": __signer as a whole value and inside a JSON text.
OpFollow ==
    Operation("custom_json",
        Obj3("required_posting_auths", JArr(<<JStr(T_signer)>>),
             "id", JStr(Str("follow")),
             "json", JStr(Str("[\"follow\",{\"follower\":\"__signer\"}]"))))

OpTransfer ==
    Operation("transfer",
        Obj3("from", JStr(Str("foo")), "amount", JStr(Str("1.000 STEEM")),
             "memo", JStr(Str("not__ref_block_num_embedded"))))

OpOrder ==
    Operation("limit_order_cancel",
        Obj3("orderid", JNum(0), "fill_or_kill", JBool(FALSE),
             "extensions", JArr(<<JNull, JNum(-1)>>)))

\* A memo with U+20AC, a code unit above 0xFF.
OpMemo ==
    Operation("transfer",
        Obj2("to", JStr(Str("bar")), "memo", JStr(Str("5 ") \o <<8364>>)))

Transaction(ref_block_num, ref_block_prefix, expiration, operations) ==
    JObj(<< <<S_ref_block_num, ref_block_num>>,
            <<S_ref_block_prefix, ref_block_prefix>>,
            <<S_expiration, expiration>>,
            <<S_extensions, JArr(<<>>)>>,
            <<S_operations, JArr(operations)>> >>)

TxSamples ==
    { Transaction(JNum(48872), JNum(1543858519), JStr(Str("2018-05-29T13:17:39")),
                  <<OpTransfer>>),
      Transaction(JStr(T_ref_block_num), JStr(T_ref_block_prefix), JStr(T_expiration),
                  <<OpVote, OpFollow>>),
      Transaction(JNum(1), JStr(T_ref_block_prefix), JStr(T_expiration), <<OpOrder>>),
      Transaction(JNum(1), JNum(2), JStr(T_expiration), <<OpMemo>>),
      Transaction(JNum(0), JNum(0), JStr(Str("1970-01-01T00:00:00")), <<>>) }

OpSamples == {OpVote, OpFollow, OpTransfer, OpOrder, OpMemo}

OpsSamples ==
    { JArr(<<>>), JArr(<<OpVote>>), JArr(<<OpTransfer, OpVote>>),
      JArr(<<OpOrder, OpMemo>>) }

CallbackUrl == Str("https://x/cb?tx={{id}}&b={{block}}&n={{txn}}&s={{sig}}{{sig}}&u={{user}}")

SignerSamples ==
    {Undefined, Some(<<>>), Some(Str("bar")), Some(Str("qux")), Some(Str("a b"))}
CallbackSamples == {Undefined, Some(<<>>), Some(CallbackUrl)}
NoBroadcastSamples == {Undefined, Some(TRUE), Some(FALSE)}

ParamSamples ==
    { Params(s, c, n) : s \in SignerSamples, c \in CallbackSamples,
                        n \in NoBroadcastSamples }

\* Links that no encoder produced: every combination of a scheme, a host, a
\* signing action, a payload and a query, and some that are no such link.
LinkSchemes == {Str("steem"), Str("http"), Str("STEEM")}
LinkHosts == {Str("sign"), Str("signx")}
LinkKinds == {S_tx, S_op, S_ops, Str("follow")}
LinkPayloads ==
    { Str("e30."),          \* {}
      Str("NQ.."),          \* 5
      Str("bnVsbA.."),      \* null
      Str("W10."),          \* []
      Str("WyJ2b3RlIix7fV0."),  \* ["vote",{}]
      Str("e3s."),          \* {{  (no JSON)
      Str("!!") }           \* (no Base64u)
LinkQueries ==
    { <<>>, Str("?nb"), Str("?s="), Str("?s=bar&nb=0"), Str("?cb=!!"),
      Str("?cb=e3tpZH19") } \* {{id}}

LinkSamples ==
    { Concat(<<sc, Str("://"), h, Str("/"), k, Str("/"), pl, q>>) :
        sc \in LinkSchemes, h \in LinkHosts, k \in LinkKinds,
        pl \in LinkPayloads, q \in LinkQueries }
    \cup { Str("steem//sign/tx/e30."), Str("steem://sign"), Str("steem://sign/tx"),
           Str("steem:sign/tx/e30."), Str("//sign/tx/e30.") }

OptionSamples ==
    { Options(1234, 5678900, Str("2020-01-01T00:00:00"),
              <<Str("foo"), Str("bar")>>, Str("foo")),
      Options(0, 0, Str("1970-01-01T00:00:00"), <<Str("foo")>>, Str("foo")),
      Options(42, 7, Str("2020-01-01T00:00:00"), <<Str("bar")>>, Str("baz")) }

ConfirmationSamples ==
    { Confirmation(Str("ab"), id, block, txn) :
        id \in {Undefined, Some(Str("cd"))},
        block \in {Undefined, Some(0), Some(5)},
        txn \in {Undefined, Some(0), Some(3)} }

\* Byte strings of at most MaxBytes bytes; 62, 63, 251 and 255 bring every
\* one of '+', '/' and '=' into the Base64 text.
MaxBytes == 3
ByteSamples == {63, 65, 251, 255}
ByteStrings == UNION { [1..n -> ByteSamples] : n \in 0..MaxBytes }

\* Base64u texts of at most MaxQuads groups of four: whole groups, groups
\* padded with one or two '.', and texts that are no Base64u.
MaxQuads == 1
B64uChars == {Ord("Q"), Ord("-"), Ord("_")}
B64uLastGroups ==
    [1..4 -> B64uChars]
    \cup { g \o Str(".") : g \in [1..3 -> B64uChars] }
    \cup { g \o Str("..") : g \in [1..2 -> B64uChars] }
B64uTexts ==
    UNION { { p \o g : p \in [1..(4 * (q - 1)) -> B64uChars], g \in B64uLastGroups } :
            q \in 1..MaxQuads }
    \cup { <<>>, Str("Q"), Str("Q..."), Str("QQ"), Str("Q+/="), Str("Q*Q.") }

(***************************************************************************)
(* The state machine: a producer encodes a link, a wallet decodes it (or   *)
(* a link from elsewhere), resolves the transaction and, after signing,    *)
(* resolves the callback.  The Base64u codec is also called on its own.    *)
(***************************************************************************)

VARIABLES
    pc,            \* the step the call chain is at
    call,          \* the producer's call: [fn, data, params]
    uri,           \* what the encoder returned
    link,          \* the text given to decode
    decoded,       \* what decode returned
    options,       \* the ResolveOptions given to resolveTransaction
    resolved,      \* what resolveTransaction returned
    confirmation,  \* the TransactionConfirmation given to resolveCallback
    redirect,      \* what resolveCallback returned
    codec          \* a Base64u call chain: [in, mid, out]

vars == <<platform, pc, call, uri, link, decoded, options, resolved, confirmation,
          redirect, codec>>

NoResult == Throw("none")
NoCall == [fn |-> "none", data |-> JNull, params |-> NoParams]
NoOptions == Options(0, 0, <<>>, <<>>, <<>>)
NoConfirmation == Confirmation(<<>>, Undefined, Undefined, Undefined)
NoCodec == [in |-> <<>>, mid |-> NoResult, out |-> NoResult]

Init ==
    /\ platform \in Platforms
    /\ pc = "idle"
    /\ call = NoCall
    /\ uri = NoResult
    /\ link = <<>>
    /\ decoded = NoResult
    /\ options = NoOptions
    /\ resolved = NoResult
    /\ confirmation = NoConfirmation
    /\ redirect = <<>>
    /\ codec = NoCodec

EncodeTx ==
    /\ pc = "idle"
    /\ \E tx \in TxSamples, params \in ParamSamples :
        /\ call' = [fn |-> "encodeTx", data |-> tx, params |-> params]
        /\ uri' = encodeTx(tx, params)
    /\ pc' = "encoded"
    /\ UNCHANGED <<platform, link, decoded, options, resolved, confirmation, redirect,
                   codec>>

EncodeOp ==
    /\ pc = "idle"
    /\ \E op \in OpSamples, params \in ParamSamples :
        /\ call' = [fn |-> "encodeOp", data |-> op, params |-> params]
        /\ uri' = encodeOp(op, params)
    /\ pc' = "encoded"
    /\ UNCHANGED <<platform, link, decoded, options, resolved, confirmation, redirect,
                   codec>>

EncodeOps ==
    /\ pc = "idle"
    /\ \E ops \in OpsSamples, params \in ParamSamples :
        /\ call' = [fn |-> "encodeOps", data |-> ops, params |-> params]
        /\ uri' = encodeOps(ops, params)
    /\ pc' = "encoded"
    /\ UNCHANGED <<platform, link, decoded, options, resolved, confirmation, redirect,
                   codec>>

\* decode of the link the producer made, or of a link from elsewhere.
Decode ==
    \E steemUrl \in (IF pc = "encoded" /\ uri.ok THEN {uri.v}
                     ELSE IF pc = "idle" THEN LinkSamples ELSE {}) :
        /\ link' = steemUrl
        /\ decoded' = decode(steemUrl)
        /\ pc' = "decoded"
        /\ UNCHANGED <<platform, call, uri, options, resolved, confirmation, redirect,
                       codec>>

ResolveTransaction ==
    /\ pc = "decoded"
    /\ decoded.ok
    /\ \E o \in OptionSamples :
        /\ options' = o
        /\ resolved' = resolveTransaction(decoded.v.tx, decoded.v.params, o)
    /\ pc' = "resolved"
    /\ UNCHANGED <<platform, call, uri, link, decoded, confirmation, redirect, codec>>

\* README: "redirect to the callback if set".
ResolveCallback ==
    /\ pc = "resolved"
    /\ resolved.ok
    /\ Truthy(decoded.v.params.callback)
    /\ \E ctx \in ConfirmationSamples :
        /\ confirmation' = ctx
        /\ redirect' = resolveCallback(Get(decoded.v.params.callback), ctx)
    /\ pc' = "done"
    /\ UNCHANGED <<platform, call, uri, link, decoded, options, resolved, codec>>

\* b64uEnc of a byte string, or of what b64uDec returned.
B64uEnc ==
    /\ \/ /\ pc = "idle"
          /\ \E b \in ByteStrings :
                codec' = [in |-> b, mid |-> b64uEnc(b), out |-> NoResult]
          /\ pc' = "enc"
       \/ /\ pc = "dec"
          /\ codec.mid.ok
          /\ codec' = [codec EXCEPT !.out = b64uEnc(codec.mid.v)]
          /\ pc' = "decenc"
    /\ UNCHANGED <<platform, call, uri, link, decoded, options, resolved, confirmation,
                   redirect>>

\* b64uDec of a text, or of what b64uEnc returned.
B64uDec ==
    /\ \/ /\ pc = "idle"
          /\ \E s \in B64uTexts :
                codec' = [in |-> s, mid |-> b64uDec(s), out |-> NoResult]
          /\ pc' = "dec"
       \/ /\ pc = "enc"
          /\ codec.mid.ok
          /\ codec' = [codec EXCEPT !.out = b64uDec(codec.mid.v)]
          /\ pc' = "encdec"
    /\ UNCHANGED <<platform, call, uri, link, decoded, options, resolved, confirmation,
                   redirect>>

Next ==
    \/ EncodeTx
    \/ EncodeOp
    \/ EncodeOps
    \/ Decode
    \/ ResolveTransaction
    \/ ResolveCallback
    \/ B64uEnc
    \/ B64uDec

Spec == Init /\ [][Next]_vars

(***************************************************************************)
(* Properties                                                              *)
(***************************************************************************)

\* The leaves of a JSON value in document order, each with its path: the
\* keys and <<index>> from the root.
RECURSIVE Leaves(_, _)
Leaves(v, path) ==
    CASE v[1] = "arr" /\ v[2] # <<>> ->
            Concat([i \in 1..Len(v[2]) |-> Leaves(v[2][i], Append(path, <<i>>))])
      [] v[1] = "obj" /\ v[2] # <<>> ->
            Concat([i \in 1..Len(v[2]) |-> Leaves(v[2][i][2], Append(path, v[2][i][1]))])
      [] OTHER -> << <<path, v>> >>

\* Two JSON values with the same paths in the same order.
SameShape(u, r) ==
    LET lu == Leaves(u, <<>>)
        lr == Leaves(r, <<>>)
    IN  Len(lu) = Len(lr) /\ \A i \in 1..Len(lu) : lu[i][1] = lr[i][1]

\* The leaves of a JSON value without their paths.
Values(v) ==
    LET l == Leaves(v, <<>>)
    IN  [i \in 1..Len(l) |-> l[i][2]]

IsStr(v) == v[1] = "str"
IsStrOf(v, s) == v[1] = "str" /\ v[2] = s
IsNumOf(v, n) == v[1] = "num" /\ v[2] = n

Tokens == {T_ref_block_num, T_ref_block_prefix, T_expiration, T_signer}

ContainsToken(s) == \E i \in 1..Len(s), t \in Tokens : StartsWithAt(s, i, t)

\* The text that stands for a token in a resolved transaction.
TokenText(t) ==
    CASE t = T_ref_block_num -> NumToString(options.ref_block_num)
      [] t = T_ref_block_prefix -> NumToString(options.ref_block_prefix)
      [] t = T_expiration -> options.expiration
      [] OTHER -> resolved.v.signer

\* s with every occurrence of a token, from the left, replaced by its text.
RECURSIVE Substituted(_)
Substituted(s) ==
    IF ~ContainsToken(s) THEN s
    ELSE LET i == CHOOSE i \in 1..Len(s) :
                    /\ \E t \in Tokens : StartsWithAt(s, i, t)
                    /\ \A j \in 1..(i - 1) : \A t \in Tokens : ~StartsWithAt(s, j, t)
             t == CHOOSE t \in Tokens : StartsWithAt(s, i, t)
         IN  SubSeq(s, 1, i - 1) \o TokenText(t) \o Substituted(Tail2(s, i + Len(t)))

Resolved == pc = "resolved" /\ resolved.ok

\* C1: decode(encodeTx(t, p)) returns a tx equal to t and params equal to p,
\* for every transaction t and every p, no_broadcast = false included.
C1_RoundTripTx ==
    /\ (pc = "encoded" /\ call.fn = "encodeTx" => uri.ok)
    /\ (pc = "decoded" /\ call.fn = "encodeTx" =>
            /\ decoded.ok
            /\ decoded.v.tx = call.data
            /\ decoded.v.params = call.params)

\* A Base64u text: whole groups of four characters of the alphabet, the last
\* one ending in at most two '.'.
IsB64uChar(c) == c \in {45, 95} \/ (IsB64Char(c) /\ c \notin {43, 47})
IsB64uText(s) ==
    /\ Len(s) % 4 = 0
    /\ \E pad \in 0..2 :
        /\ pad < Len(s) \/ (Len(s) = 0 /\ pad = 0)
        /\ \A i \in 1..(Len(s) - pad) : IsB64uChar(s[i])
        /\ \A i \in (Len(s) - pad + 1)..Len(s) : s[i] = 46

\* A Base64u text whose last character before the padding carries no bits
\* beyond the last whole byte: the texts b64uEnc produces.
B64uValue(c) == B64Index(B64U_LOOKUP(c))
IsCanonicalB64u(s) ==
    /\ IsB64uText(s)
    /\ Len(s) > 0 /\ s[Len(s)] = 46 =>
          IF s[Len(s) - 1] = 46 THEN B64uValue(s[Len(s) - 2]) % 16 = 0
          ELSE B64uValue(s[Len(s) - 1]) % 4 = 0

NoStandardOnly(r) == r.ok /\ \A i \in 1..Len(r.v) : r.v[i] \notin {43, 47, 61}

\* C2 as amended: b64uDec(b64uEnc(b)) = b for every byte string b;
\* b64uEnc(b64uDec(s)) = s for every Base64u text s whose unused trailing bits
\* are zero; b64uDec accepts every Base64u text; no output of b64uEnc holds
\* '+', '/' or '='.
C2_RoundTripCanonical ==
    /\ pc \in {"enc", "encdec"} => NoStandardOnly(codec.mid)
    /\ pc = "encdec" => codec.out.ok /\ codec.out.v = codec.in
    /\ pc \in {"dec", "decenc"} /\ IsB64uText(codec.in) => codec.mid.ok
    /\ pc = "decenc" => NoStandardOnly(codec.out)
    /\ pc = "decenc" /\ IsCanonicalB64u(codec.in) => codec.out.v = codec.in

\* C2 as stated: b64uEnc(b64uDec(s)) = s for every Base64u text s.
C2_Bijection ==
    pc = "decenc" /\ IsB64uText(codec.in) => codec.out.ok /\ codec.out.v = codec.in

C2_Witness ==
    /\ pc = "decenc"
    /\ codec.in = Str("-_Q.")
    /\ codec.out.ok
    /\ codec.out.v = codec.in

\* C3 as amended: in the resolved transaction every string value of the
\* unresolved one stands at the same path with every occurrence of a token
\* replaced, whether the token is the whole value or a part of it; a string
\* value that holds no token is returned unchanged.
C3_EveryOccurrenceReplaced ==
    Resolved =>
        /\ SameShape(decoded.v.tx, resolved.v.tx)
        /\ LET u == Values(decoded.v.tx)
               r == Values(resolved.v.tx)
           IN  \A i \in 1..Len(u) : IsStr(u[i]) => IsStrOf(r[i], Substituted(u[i][2]))

\* C3 as stated: a string value that holds a token inside a longer string is
\* returned unchanged at the same path.
C3_ExactMatchOnly ==
    Resolved =>
        /\ SameShape(decoded.v.tx, resolved.v.tx)
        /\ LET u == Values(decoded.v.tx)
               r == Values(resolved.v.tx)
           IN  \A i \in 1..Len(u) :
                  IsStr(u[i]) /\ u[i][2] \notin Tokens /\ ContainsToken(u[i][2])
                  => r[i] = u[i]

C3_Witness ==
    /\ Resolved
    /\ options.ref_block_num = 1234
    /\ LET u == Values(decoded.v.tx)
           r == Values(resolved.v.tx)
       IN  \E i \in 1..Len(u) :
              /\ IsStrOf(u[i], Str("not__ref_block_num_embedded"))
              /\ Len(r) = Len(u)
              /\ IsStrOf(r[i], Str("not1234_embedded"))

Members(seq) == {seq[i] : i \in 1..Len(seq)}

\* C4 as amended: the chosen signer is params.signer when it is set to a
\* non-empty string and options.preferred_signer otherwise; a result names
\* the chosen signer, a member of options.signers; a chosen signer outside
\* options.signers fails with the signer-unavailable error.
C4_Chosen ==
    IF IsSet(decoded.v.params.signer) /\ Len(Get(decoded.v.params.signer)) > 0
    THEN Get(decoded.v.params.signer)
    ELSE options.preferred_signer

C4_SignerSelection ==
    pc = "resolved" =>
        /\ resolved.ok => resolved.v.signer = C4_Chosen
                          /\ resolved.v.signer \in Members(options.signers)
        /\ C4_Chosen \notin Members(options.signers) =>
              ~resolved.ok /\ resolved.err = "SignerUnavailable"

\* C4 as stated: the chosen signer is params.signer whenever it is set.
C4_SignerWhenSet ==
    pc = "resolved" =>
        LET chosen == IF IsSet(decoded.v.params.signer)
                      THEN Get(decoded.v.params.signer)
                      ELSE options.preferred_signer
        IN  /\ resolved.ok => resolved.v.signer = chosen
                              /\ resolved.v.signer \in Members(options.signers)
            /\ chosen \notin Members(options.signers) =>
                  ~resolved.ok /\ resolved.err = "SignerUnavailable"

C4_Witness ==
    /\ pc = "resolved"
    /\ decoded.v.params.signer = Some(<<>>)
    /\ options.preferred_signer = Str("foo")
    /\ resolved.ok
    /\ resolved.v.signer = Str("foo")

\* The text of a confirmation field: its value as a string when the field is
\* present, the empty string when it is absent.
FieldText(m) ==
    IF ~IsSet(confirmation[m]) THEN <<>>
    ELSE IF m \in {"block", "txn"} THEN NumToString(Get(confirmation[m]))
    ELSE Get(confirmation[m])

Fields == {"sig", "id", "block", "txn"}
FieldToken == [m \in Fields |-> Str("{{") \o Str(m) \o Str("}}")]

RECURSIVE Templated(_)
Templated(url) ==
    IF url = <<>> THEN <<>>
    ELSE IF \E m \in Fields : StartsWithAt(url, 1, FieldToken[m])
         THEN LET m == CHOOSE m \in Fields : StartsWithAt(url, 1, FieldToken[m])
              IN  FieldText(m) \o Templated(Tail2(url, Len(FieldToken[m]) + 1))
    ELSE <<url[1]>> \o Templated(Tail(url))

\* C5: resolveCallback replaces every {{sig}}, {{id}}, {{block}} and {{txn}}
\* by the field's value as a string whenever the field is present (block 0
\* and transaction index 0 included), by the empty string only when it is
\* absent, and leaves every other text unchanged.
C5_CallbackFilled ==
    pc = "done" => redirect = Templated(Get(decoded.v.params.callback))

\* The signing action of a link: the first segment of its path.
KindOf(url) == Split(url.pathname, 47)[2]

\* A path /<kind>/<payload> of two non-empty segments.
HasKindAndPayload(url) ==
    LET segs == Split(url.pathname, 47)
    IN  Len(segs) = 3 /\ segs[2] # <<>> /\ segs[3] # <<>>

Fails(r, e) == ~r.ok /\ r.err = e

\* C6: decode validates in the order scheme, host, kind, payload: a scheme
\* other than steem fails with InvalidProtocol, else a host other than sign
\* with InvalidAction, else a kind outside {tx, op, ops} with
\* InvalidSigningAction whatever the payload segment holds.
C6_ValidationOrder ==
    pc = "decoded" /\ URL(link).ok =>
        LET url == URL(link).v
        IN  IF url.protocol # Str("steem:") THEN Fails(decoded, "InvalidProtocol")
            ELSE IF url.host # Str("sign") THEN Fails(decoded, "InvalidAction")
            ELSE IF /\ HasKindAndPayload(url)
                    /\ KindOf(url) \notin {Str("tx"), Str("op"), Str("ops")}
                 THEN Fails(decoded, "InvalidSigningAction")
            ELSE TRUE

HasArray(obj, k) == \E i \in 1..Len(obj[2]) : obj[2][i][1] = k /\ obj[2][i][2][1] = "arr"
HasField(obj, k) == \E i \in 1..Len(obj[2]) : obj[2][i][1] = k

\* C7: every successful decode returns a record with the fields
\* ref_block_num, ref_block_prefix, expiration, extensions and operations,
\* operations an ordered sequence.
C7_DecodedTxIsTransaction ==
    pc = "decoded" /\ decoded.ok =>
        /\ decoded.v.tx[1] = "obj"
        /\ \A k \in {Str("ref_block_num"), Str("ref_block_prefix"), Str("expiration"),
                     Str("extensions")} : HasField(decoded.v.tx, k)
        /\ HasArray(decoded.v.tx, Str("operations"))

\* The query of the produced URI: its text from the first '?'.
QueryOf(u) == Tail2(u, FindAny(u, 1, {63}))

\* The query of the keys nb, s and cb, in this order, of which emitS and
\* emitCb say whether s and cb are there, s carrying signerText.
QueryText(p, emitS, signerText, emitCb) ==
    LET keys == (IF p.no_broadcast = Some(TRUE) THEN <<Str("nb=")>> ELSE <<>>)
                \o (IF emitS THEN <<Str("s=") \o signerText>> ELSE <<>>)
                \o (IF emitCb THEN <<Str("cb=") \o b64uEnc(Get(p.callback)).v>> ELSE <<>>)
    IN  IF keys = <<>> THEN <<>> ELSE Str("?") \o Join(keys, Str("&"))

NonEmpty(o) == IsSet(o) /\ Len(Get(o)) > 0

\* C8 as amended: in every URI an encoder returns, the query holds nb (empty
\* value) iff no_broadcast = true, s with the form-urlencoded signer iff
\* signer is set and non-empty, cb with Base64u(callback) iff callback is set
\* and non-empty, in the order nb, s, cb, and there is no '?' when no key is
\* emitted.
C8_QueryOfNonEmptyParams ==
    pc = "encoded" /\ uri.ok =>
        QueryOf(uri.v) =
            QueryText(call.params,
                      NonEmpty(call.params.signer),
                      IF NonEmpty(call.params.signer)
                      THEN Urlencode(Get(call.params.signer)) ELSE <<>>,
                      NonEmpty(call.params.callback))

\* C8 as stated: s with the literal signer iff signer is set, cb iff callback
\* is set.
C8_QueryOfSetParams ==
    pc = "encoded" /\ uri.ok =>
        QueryOf(uri.v) =
            QueryText(call.params,
                      IsSet(call.params.signer),
                      IF IsSet(call.params.signer) THEN Get(call.params.signer) ELSE <<>>,
                      IsSet(call.params.callback))

C8_Witness ==
    /\ pc = "encoded"
    /\ uri.ok
    /\ call.params = Params(Some(Str("a b")), Some(CallbackUrl), Some(TRUE))
    /\ StartsWithAt(QueryOf(uri.v), 1, Str("?nb=&s=a+b&cb=aHR0cHM6Ly94L2Ni"))

\* The transaction that stands for the operations of an op or ops link.
SynthesizedTx(operations) ==
    JObj(<< <<Str("ref_block_num"), JStr(Str("__ref_block_num"))>>,
            <<Str("ref_block_prefix"), JStr(Str("__ref_block_prefix"))>>,
            <<Str("expiration"), JStr(Str("__expiration"))>>,
            <<Str("extensions"), JArr(<<>>)>>,
            <<Str("operations"), JArr(operations)>> >>)

\* C9: decode(encodeOp(op)) returns the synthesized transaction with
\* operations = [op], decode(encodeOps(ops)) the one with operations = ops,
\* and encodeOp without parameters returns exactly
\* steem://sign/op/<Base64u(compact JSON of op)>.
C9_RoundTripOps ==
    /\ pc = "encoded" /\ call.fn \in {"encodeOp", "encodeOps"} => uri.ok
    /\ pc = "encoded" /\ call.fn = "encodeOp" /\ call.params = NoParams /\ uri.ok =>
          uri.v = Str("steem://sign/op/") \o b64uEnc(stringify(call.data)).v
    /\ pc = "decoded" /\ call.fn = "encodeOp" =>
          decoded.ok /\ decoded.v.tx = SynthesizedTx(<<call.data>>)
    /\ pc = "decoded" /\ call.fn = "encodeOps" =>
          decoded.ok /\ decoded.v.tx = SynthesizedTx(call.data[2])

\* C10: a string value equal to __ref_block_num or __ref_block_prefix is
\* replaced by the number of the options, __expiration and __signer by their
\* strings; numbers, booleans and null pass through; sequences and mappings
\* keep their length, keys and order.
C10_ReplacementKeepsType ==
    Resolved =>
        /\ SameShape(decoded.v.tx, resolved.v.tx)
        /\ LET u == Values(decoded.v.tx)
               r == Values(resolved.v.tx)
           IN  \A i \in 1..Len(u) :
                  /\ IsStrOf(u[i], T_ref_block_num) => IsNumOf(r[i], options.ref_block_num)
                  /\ IsStrOf(u[i], T_ref_block_prefix) =>
                        IsNumOf(r[i], options.ref_block_prefix)
                  /\ IsStrOf(u[i], T_expiration) => IsStrOf(r[i], options.expiration)
                  /\ IsStrOf(u[i], T_signer) => IsStrOf(r[i], resolved.v.signer)
                  /\ ~IsStr(u[i]) => r[i] = u[i]

====
